---- MODULE Spec2Model ----
(***************************************************************************)
(* A model of FastaAligner.py: the FASTA importer (fasta_importer), the    *)
(* parameter importer (parameter_importer), the pairwise scoring loop of   *)
(* the program logic, and the run of the whole program.                    *)
(*                                                                         *)
(* Strings are sequences of one-character strings, so that strip(),        *)
(* upper(), startswith() and indexing act on characters as they do in the  *)
(* program.  The insertion-ordered dict fasta_dict is a sequence of        *)
(* [head, seq] records with pairwise different heads.                      *)
(***************************************************************************)
EXTENDS Integers, Sequences, FiniteSets, TLC

\* ------------------------------------------------------------------ bounds

\* The longest input file, in lines.
MaxLines == 4
\* The largest number of records of a store the scorer is started on.
MaxRecs == 3
\* The longest sequences of the two-record stores the scorer is started on.
MaxLen == 2

\* ------------------------------------------------------------- characters

valid_chars == {"A", "C", "G", "T", "-", "N"}

\* The characters str.strip() removes that occur in the modelled inputs.
Whitespace == {" "}

\* str.upper() on one character of the modelled inputs.  "sz" stands for
\* the character U+00DF, whose upper case is "SS", "napos" for U+0149,
\* whose upper case is U+02BC ("apos") followed by "N".
Upper(c) ==
    CASE c = "a" -> <<"A">>
      [] c = "c" -> <<"C">>
      [] c = "g" -> <<"G">>
      [] c = "n" -> <<"N">>
      [] c = "x" -> <<"X">>
      [] c = "d" -> <<"D">>
      [] c = "sz" -> <<"S", "S">>
      [] c = "napos" -> <<"apos", "N">>
      [] OTHER -> <<c>>

RECURSIVE UpperLine(_)
UpperLine(line) ==
    IF line = <<>> THEN <<>> ELSE Upper(Head(line)) \o UpperLine(Tail(line))

RECURSIVE LStrip(_)
LStrip(line) ==
    IF line # <<>> /\ Head(line) \in Whitespace THEN LStrip(Tail(line)) ELSE line

RECURSIVE RStrip(_)
RStrip(line) ==
    IF line # <<>> /\ line[Len(line)] \in Whitespace
    THEN RStrip(SubSeq(line, 1, Len(line) - 1))
    ELSE line

\* str.strip()
Strip(line) == RStrip(LStrip(line))

\* line.startswith('>')
StartsWithGT(line) == line # <<>> /\ Head(line) = ">"

\* sum(line_upper.count(c) for c in valid_chars)
CountValid(s) == Cardinality({k \in 1..Len(s) : s[k] \in valid_chars})

\* The test that guards the replacement of invalid characters.
NeedsReplacement(line) == CountValid(UpperLine(line)) # Len(line)

\* line_upper after the replacement block.
NormalizeLine(line) ==
    LET line_upper == UpperLine(line)
    IN  IF NeedsReplacement(line)
        THEN [k \in 1..Len(line_upper) |->
                 IF line_upper[k] \in valid_chars THEN line_upper[k] ELSE "N"]
        ELSE line_upper

\* Whether the replacement block sets invalid_characters_found.
FindsInvalid(line) ==
    /\ NeedsReplacement(line)
    /\ \E k \in 1..Len(UpperLine(line)) : UpperLine(line)[k] \notin valid_chars

\* ------------------------------------------------------- the ordered dict

HasKey(d, key) == \E k \in 1..Len(d) : d[k].head = key

\* The assignment with the key not looked up: the first value of a store that
\* is not empty is replaced.
DictSet_firstKey(d, key, v) ==
    IF d # <<>>
    THEN [k \in 1..Len(d) |-> IF k = 1 THEN [head |-> d[k].head, seq |-> v] ELSE d[k]]
    ELSE Append(d, [head |-> key, seq |-> v])

\* d[key] = v: an existing key keeps its position, a new key is appended.
DictSet(d, key, v) ==
    IF HasKey(d, key)
    THEN [k \in 1..Len(d) |->
             IF d[k].head = key THEN [head |-> key, seq |-> v] ELSE d[k]]
    ELSE Append(d, [head |-> key, seq |-> v])

\* ------------------------------------------------------------------ state

VARIABLES
    content,                  \* the lines of the input file, as readline() yields them
    line_no,                  \* the number of lines read so far
    fasta_dict,
    first_line,
    file_startswith_GT,
    header_read,
    invalid_characters_found,
    head,
    seq,
    parameters_dict,
    i,                        \* the outer loop's index (from 0)
    j,                        \* the inner loop's index (from 0)
    seq_a,
    seq_b,
    identity,
    gaps,
    score,
    alignment_len,
    disregarded_positions,
    col,                      \* the number of columns the zip loop has taken
    score_summary,            \* the lines of the summary, one record a line
    output_file,              \* what has been written to the output file
    parameters_path,          \* the path given to parameter_importer, NoPath for None
    param_content,            \* the lines of the parameter file, without their newline
    param_line_no,            \* the number of parameter lines read so far
    equals_sign_index,        \* <<>> while unbound, <<n>> once assigned
    param_read,
    value,                    \* <<>> while unbound, <<v>> once assigned
    stdout,                   \* the messages printed so far
    run,                      \* the number of the call of fasta_importer in this process
    first_result,             \* <<>>, or what the first call ended with
    message,                  \* the parts of the message of the scoring loop's ValueError
    pc,                       \* the program's position
    error                     \* the exception that ended the run, "none" before

pvars == <<content, line_no, fasta_dict, first_line, file_startswith_GT,
           header_read, invalid_characters_found, head, seq>>

\* The counters of the pair being scored.
cvars == <<identity, gaps, score, disregarded_positions>>

\* The variables of parameter_importer.
ivars == <<parameters_dict, parameters_path, param_content, param_line_no,
           equals_sign_index, param_read, value>>

svars == <<ivars, i, j, seq_a, seq_b, alignment_len, col, cvars,
           score_summary, output_file>>

rvars == <<run, first_result>>

vars == <<pvars, svars, rvars, stdout, message, pc, error>>

\* ----------------------------------------------------- parameter_importer

\* The parameters when no parameter file is given.
DefaultParameters ==
    [match_score |-> 1, transition |-> -1, transversion |-> -2, gap_penalty |-> -1]

\* The longest parameter file, in lines.
MaxParamLines == 3

\* The names of the four parameters, as the characters of a line spell them.
Key_match_score == <<"m", "a", "t", "c", "h", "_", "s", "c", "o", "r", "e">>

Key_transition == <<"t", "r", "a", "n", "s", "i", "t", "i", "o", "n">>

Key_transversion == <<"t", "r", "a", "n", "s", "v", "e", "r", "s", "i", "o", "n">>

Key_gap_penalty == <<"g", "a", "p", "_", "p", "e", "n", "a", "l", "t", "y">>

\* The dictionary key a name read from a line stands for.  parameters_dict
\* is a function from keys to numbers; every name that is none of the four
\* is the one key "other" here.
KeyOf(name) ==
    CASE name = Key_match_score -> "match_score"
      [] name = Key_transition -> "transition"
      [] name = Key_transversion -> "transversion"
      [] name = Key_gap_penalty -> "gap_penalty"
      [] OTHER -> "other"

\* line.count(c)
CountOf(line, c) == Cardinality({k \in 1..Len(line) : line[k] = c})

\* line.index(c), for a line that holds c; the index counts from 0.
IndexOf(line, c) ==
    (CHOOSE k \in 1..Len(line) :
         line[k] = c /\ \A m \in 1..(k - 1) : line[m] # c) - 1

\* line[: e]
SliceBefore(line, e) == SubSeq(line, 1, IF e < Len(line) THEN e ELSE Len(line))

\* line[e + 1 :]
SliceAfter(line, e) == SubSeq(line, e + 2, Len(line))

DigitChars == {"0", "1", "2", "3", "4", "5", "6", "7", "8", "9"}

DigitValue(c) ==
    CASE c = "0" -> 0 [] c = "1" -> 1 [] c = "2" -> 2 [] c = "3" -> 3
      [] c = "4" -> 4 [] c = "5" -> 5 [] c = "6" -> 6 [] c = "7" -> 7
      [] c = "8" -> 8 [] c = "9" -> 9

RECURSIVE DigitsValue(_)
DigitsValue(s) ==
    IF s = <<>> THEN 0
    ELSE 10 * DigitsValue(SubSeq(s, 1, Len(s) - 1)) + DigitValue(s[Len(s)])

\* float(text), for the texts of the modelled files: an optional sign and
\* digits give <<the number>>, every other text gives <<>> (ValueError).
FloatOf(text) ==
    LET signed == text # <<>> /\ text[1] \in {"-", "+"}
        digits == IF signed THEN Tail(text) ELSE text
    IN  IF digits # <<>> /\ \A k \in 1..Len(digits) : digits[k] \in DigitChars
        THEN <<(IF signed /\ text[1] = "-" THEN -1 ELSE 1) * DigitsValue(digits)>>
        ELSE <<>>

\* if param_read not in parameters_dict.keys()
UnknownName_never(name, d) == FALSE

UnknownName(name, d) == KeyOf(name) \notin DOMAIN d

\* parameters_dict[param_read] = value
AssignParameter(d, name, v) ==
    [key \in DOMAIN d \cup {KeyOf(name)} |-> IF key = KeyOf(name) THEN v ELSE d[key]]

\* The value kept in the variable value after the try of one line: the
\* number parsed, or what the variable held before when float() raises.
ValueAfterTry(parsed, old) == IF parsed # <<>> THEN parsed ELSE old

\* The paths parameter_importer is called with: none, a text file that
\* exists, a file of another type, and a text file that does not exist.
NoPath == "None"

ParameterPaths == {NoPath, "parameters.txt", "parameters.cfg", "missing.txt"}

\* path.endswith('.txt')
EndsWithTxt(path) == path \in {"parameters.txt", "missing.txt"}

\* os.path.exists(path)
PathExists(path) == path \in {"parameters.txt", "parameters.cfg"}

\* The variables of parameter_importer before it is called.
ImporterIdle ==
    /\ parameters_path = NoPath
    /\ param_content = <<>>
    /\ param_line_no = 0
    /\ equals_sign_index = <<>>
    /\ param_read = <<>>
    /\ value = <<>>

\* --------------------------------------------------------- fasta_importer

\* The raw lines the modelled files are made of.
RawLines ==
    { <<">", "a">>, <<">", "b">>, <<" ", ">", "c">>, <<">", "a", " ", "d">>,
      <<>>, <<" ">>,
      <<"A">>, <<"A", "C">>, <<"g", "x">>, <<"-", " ">>,
      <<"sz">>, <<"napos">> }

\* The raw lines of the longer modelled files.
CoreLines == { <<">", "a">>, <<">", "b">>, <<" ", ">", "c">>, <<" ">>, <<"A">> }

\* f.readline().strip(): the empty string at the end of the file.
CurrentLine == IF line_no < Len(content) THEN Strip(content[line_no + 1]) ELSE <<>>

\* readline() that does not move on in the file.
NextLineNo_stuck == line_no

NextLineNo == IF line_no < Len(content) THEN line_no + 1 ELSE line_no

\* if first_line and not file_startswith_GT
MalformedStart_notDropped(first, startsGT) == first /\ startsGT

MalformedStart(first, startsGT) == first /\ ~startsGT

\* The two checks after the read loop.
ValidationError_noCount(d) ==
    IF Cardinality({Len(d[k].seq) : k \in 1..Len(d)}) > 1 THEN "unequal" ELSE "none"

ValidationError_noLength(d) ==
    IF Len(d) < 2 THEN "insufficient" ELSE "none"

ValidationError(d) ==
    IF Len(d) < 2 THEN "insufficient"
    ELSE IF Cardinality({Len(d[k].seq) : k \in 1..Len(d)}) > 1 THEN "unequal"
    ELSE "none"

\* if invalid_characters_found: print('Warning: invalid characters ...')
NoticeAtEnd_always(found, out) == Append(out, "invalid_characters")

NoticeAtEnd(found, out) ==
    IF found THEN Append(out, "invalid_characters") ELSE out

\* The scorer's variables before the program logic starts.
ScorerIdle ==
    /\ i = 0
    /\ j = 0
    /\ seq_a = <<>>
    /\ seq_b = <<>>
    /\ identity = 0
    /\ gaps = 0
    /\ score = 0
    /\ alignment_len = 0
    /\ disregarded_positions = 0
    /\ col = 0
    /\ score_summary = <<>>
    /\ output_file = <<>>

InitParse ==
    /\ \/ \E n \in 0..MaxLines : content \in [1..n -> RawLines]
       \/ content \in [1..(MaxLines + 1) -> CoreLines]
    /\ line_no = 0
    /\ fasta_dict = <<>>
    /\ first_line = TRUE
    /\ file_startswith_GT = FALSE
    /\ header_read = FALSE
    /\ invalid_characters_found = FALSE
    /\ head = <<>>
    /\ seq = <<>>
    /\ pc = "read"
    /\ error = "none"
    /\ parameters_dict = DefaultParameters
    /\ ImporterIdle
    /\ ScorerIdle
    /\ stdout = <<>>
    /\ run = 1
    /\ first_result = <<>>
    /\ message = <<>>

\* One pass of the read loop over a header line.
ReadHeader ==
    /\ pc = "read"
    /\ StartsWithGT(CurrentLine)
    /\ line_no' = NextLineNo
    /\ file_startswith_GT' = (first_line \/ file_startswith_GT)
    /\ fasta_dict' = IF first_line THEN fasta_dict ELSE DictSet(fasta_dict, head, seq)
    /\ head' = CurrentLine
    /\ header_read' = TRUE
    /\ IF MalformedStart(first_line, file_startswith_GT')
       THEN /\ pc' = "error"
            /\ error' = "malformed"
            /\ first_line' = first_line
       ELSE /\ pc' = "read"
            /\ error' = error
            /\ first_line' = FALSE
    /\ UNCHANGED <<content, invalid_characters_found, seq, svars, rvars, message, stdout>>

\* One pass of the read loop over a non-empty line that is no header.
ReadSequence ==
    /\ pc = "read"
    /\ CurrentLine # <<>>
    /\ ~StartsWithGT(CurrentLine)
    /\ line_no' = NextLineNo
    /\ invalid_characters_found' =
          (invalid_characters_found \/ FindsInvalid(CurrentLine))
    /\ seq' = IF header_read THEN NormalizeLine(CurrentLine)
                             ELSE seq \o NormalizeLine(CurrentLine)
    /\ header_read' = FALSE
    /\ IF MalformedStart(first_line, file_startswith_GT)
       THEN /\ pc' = "error"
            /\ error' = "malformed"
            /\ first_line' = first_line
       ELSE /\ pc' = "read"
            /\ error' = error
            /\ first_line' = FALSE
    /\ UNCHANGED <<content, fasta_dict, file_startswith_GT, head, svars, rvars, message, stdout>>

\* One pass of the read loop over an empty line: the end of the file, or a
\* line that strip() leaves empty.  It is handled as a sequence line, and
\* then ends the loop.
ReadEmpty ==
    /\ pc = "read"
    /\ CurrentLine = <<>>
    /\ line_no' = NextLineNo
    /\ invalid_characters_found' =
          (invalid_characters_found \/ FindsInvalid(CurrentLine))
    /\ seq' = IF header_read THEN NormalizeLine(CurrentLine)
                             ELSE seq \o NormalizeLine(CurrentLine)
    /\ header_read' = FALSE
    /\ IF MalformedStart(first_line, file_startswith_GT)
       THEN /\ pc' = "error"
            /\ error' = "malformed"
            /\ first_line' = first_line
            /\ fasta_dict' = fasta_dict
            /\ stdout' = stdout
       ELSE /\ pc' = "validate"
            /\ error' = error
            /\ first_line' = FALSE
            /\ fasta_dict' = DictSet(fasta_dict, head, seq')
            /\ stdout' = NoticeAtEnd(invalid_characters_found', stdout)
    /\ UNCHANGED <<content, file_startswith_GT, head, svars, rvars, message>>

\* The checks after the loop, and the return.
Validate ==
    /\ pc = "validate"
    /\ error' = ValidationError(fasta_dict)
    /\ pc' = IF ValidationError(fasta_dict) = "none" THEN "returned" ELSE "error"
    /\ UNCHANGED <<pvars, svars, rvars, message, stdout>>

NextParse == ReadHeader \/ ReadSequence \/ ReadEmpty \/ Validate

SpecParse == InitParse /\ [][NextParse]_vars

\* What fasta_importer binds its local variables to before it opens the
\* file.
LocalsAtEntry_seqKept ==
    [fasta_dict |-> <<>>, first_line |-> TRUE, file_startswith_GT |-> FALSE,
     header_read |-> FALSE, invalid_characters_found |-> FALSE,
     head |-> head, seq |-> seq]

LocalsAtEntry ==
    [fasta_dict |-> <<>>, first_line |-> TRUE, file_startswith_GT |-> FALSE,
     header_read |-> FALSE, invalid_characters_found |-> FALSE,
     head |-> <<>>, seq |-> <<>>]

\* What a call of fasta_importer that has ended gives its caller: the
\* store it returns, or the error it raises.
ResultOfCall ==
    [returned |-> pc = "returned",
     store |-> IF pc = "returned" THEN fasta_dict ELSE <<>>,
     error |-> error]

\* A second call of fasta_importer on the same file, in the same process,
\* after the first call has ended.
CallAgain ==
    /\ run = 1
    /\ pc \in {"returned", "error"}
    /\ run' = 2
    /\ first_result' = <<ResultOfCall>>
    /\ fasta_dict' = LocalsAtEntry.fasta_dict
    /\ first_line' = LocalsAtEntry.first_line
    /\ file_startswith_GT' = LocalsAtEntry.file_startswith_GT
    /\ header_read' = LocalsAtEntry.header_read
    /\ invalid_characters_found' = LocalsAtEntry.invalid_characters_found
    /\ head' = LocalsAtEntry.head
    /\ seq' = LocalsAtEntry.seq
    /\ line_no' = 0
    /\ pc' = "read"
    /\ error' = "none"
    /\ UNCHANGED <<content, svars, stdout, message>>

NextReparse == NextParse \/ CallAgain

SpecReparse == InitParse /\ [][NextReparse]_vars

\* ----------------------------------------- parameter_importer: the steps

\* The lines the modelled parameter files are made of: assignments to the
\* four parameters, an unknown name, values that are no numbers, lines
\* without an equals sign (one of them blank) and a line with two.
ParameterLines ==
    { Key_match_score \o <<"=", "2">>,
      Key_match_score \o <<" ", "=", " ", "7">>,
      Key_transition \o <<"=", "-", "3">>,
      Key_transversion \o <<"=", "0">>,
      Key_gap_penalty \o <<" ", "=", " ", "1", "2">>,
      <<"g", "a", "p", "=", "1">>,
      Key_transition \o <<"=", "x">>,
      Key_match_score \o <<"=">>,
      Key_transition \o <<" ", "4">>,
      <<>>,
      Key_gap_penalty \o <<"=", "=", "1">> }

\* The state in which parameter_importer is called: a path, and for the
\* text file that exists its lines.
ImporterCalled ==
    /\ parameters_path \in ParameterPaths
    /\ IF parameters_path = "parameters.txt"
       THEN \E n \in 0..MaxParamLines : param_content \in [1..n -> ParameterLines]
       ELSE param_content = <<>>
    /\ param_line_no = 0
    /\ equals_sign_index = <<>>
    /\ param_read = <<>>
    /\ value = <<>>

InitParams ==
    /\ content = <<>>
    /\ line_no = 0
    /\ fasta_dict = <<>>
    /\ first_line = TRUE
    /\ file_startswith_GT = FALSE
    /\ header_read = FALSE
    /\ invalid_characters_found = FALSE
    /\ head = <<>>
    /\ seq = <<>>
    /\ parameters_dict = DefaultParameters
    /\ ImporterCalled
    /\ ScorerIdle
    /\ stdout = <<>>
    /\ run = 1
    /\ first_result = <<>>
    /\ message = <<>>
    /\ pc = "params_call"
    /\ error = "none"

\* The entry of parameter_importer: the defaults and the checks of the path.
ImporterEntry ==
    /\ pc = "params_call"
    /\ parameters_dict' = DefaultParameters
    /\ IF parameters_path = NoPath
       THEN pc' = "params_returned" /\ error' = error
       ELSE IF ~EndsWithTxt(parameters_path)
       THEN pc' = "error" /\ error' = "not_text_file"
       ELSE IF ~PathExists(parameters_path)
       THEN pc' = "error" /\ error' = "missing_file"
       ELSE pc' = "params" /\ error' = error
    /\ UNCHANGED <<pvars, parameters_path, param_content, param_line_no,
                   equals_sign_index, param_read, value, i, j, seq_a, seq_b,
                   alignment_len, col, cvars, score_summary, output_file,
                   rvars, message, stdout>>

\* One pass of the read loop over a line of the parameter file.
ReadParameterLine ==
    /\ pc = "params"
    /\ param_line_no < Len(param_content)
    /\ LET line == param_content[param_line_no + 1]
           found == CountOf(line, "=") > 0
           index == IF found THEN <<IndexOf(line, "=")>> ELSE equals_sign_index
           redundant == CountOf(line, "=") > 1
           named == ~redundant /\ index # <<>>
           name == Strip(SliceBefore(line, index[1]))
           unknown == named /\ UnknownName(name, parameters_dict)
           valued == named /\ ~unknown
           parsed == FloatOf(Strip(SliceAfter(line, index[1])))
           kept == IF valued THEN ValueAfterTry(parsed, value) ELSE value
           failure == IF redundant THEN "redundant_equals"
                      ELSE IF index = <<>> THEN "unbound_local"
                      ELSE IF unknown THEN "unknown_parameter"
                      ELSE IF kept = <<>> THEN "unbound_local"
                      ELSE "none"
       IN  /\ param_line_no' = param_line_no + 1
           /\ equals_sign_index' = index
           /\ param_read' = IF named THEN name ELSE param_read
           /\ value' = kept
           /\ stdout' = stdout
                          \o (IF found THEN <<>> ELSE <<"missing_equals">>)
                          \o (IF valued /\ parsed = <<>> THEN <<"value_error">> ELSE <<>>)
           /\ parameters_dict' = IF failure = "none"
                                 THEN AssignParameter(parameters_dict, name, kept[1])
                                 ELSE parameters_dict
           /\ error' = failure
           /\ pc' = IF failure = "none" THEN "params" ELSE "error"
    /\ UNCHANGED <<pvars, parameters_path, param_content, i, j, seq_a, seq_b,
                   alignment_len, col, cvars, score_summary, output_file, rvars, message>>

\* The pass of the read loop at the end of the file: the break, and the
\* return of the dictionary.
ReadParameterEnd ==
    /\ pc = "params"
    /\ param_line_no = Len(param_content)
    /\ pc' = "params_returned"
    /\ UNCHANGED <<pvars, svars, rvars, message, stdout, error>>

NextParams == ImporterEntry \/ ReadParameterLine \/ ReadParameterEnd

SpecParams == InitParams /\ [][NextParams]_vars

\* ---------------------------------------------- the pairwise scoring loop

\* The parameter sets the scorer is started on: the defaults, and values a
\* parameter file can set (any number is accepted for any parameter).
ParameterSets ==
    { DefaultParameters,
      [match_score |-> 2, transition |-> 3, transversion |-> 5, gap_penalty |-> 7],
      [match_score |-> 0, transition |-> 0, transversion |-> 0, gap_penalty |-> 0],
      [match_score |-> -3, transition |-> 4, transversion |-> 0, gap_penalty |-> 2] }

Heads == { <<">", "a">>, <<">", "b">>, <<">", "c">>, <<">", "d">> }

\* The ways to put n different headers in a file.
HeadOrders(n) ==
    {h \in [1..n -> Heads] : \A x, y \in 1..n : x # y => h[x] # h[y]}

MakeStore(h, s) == [k \in 1..Len(h) |-> [head |-> h[k], seq |-> s[k]]]

\* The stores the scorer is started on are stores fasta_importer returns: at
\* least two records, of one length, over the alphabet.

\* Two records over the whole alphabet.
IsPairStore(d) ==
    \E n \in 0..MaxLen :
        \E s \in [1..n -> valid_chars], t \in [1..n -> valid_chars] :
            d = MakeStore(<<<<">", "a">>, <<">", "b">>>>, <<s, t>>)

\* Up to MaxRecs records, in every order of their headers.
IsManyStore(d) ==
    \E n \in 2..MaxRecs, len \in 0..1 :
        \E h \in HeadOrders(n), s \in [1..n -> [1..len -> {"A", "N"}]] :
            d = MakeStore(h, s)

\* The stores of the documented scenarios.
ScenarioStores ==
    { MakeStore(<<<<">", "a">>, <<">", "b">>>>, p) :
        p \in { << <<"A", "C", "G", "T">>, <<"A", "C", "G", "T">> >>,
                << <<"A", "G", "-", "-">>, <<"A", "-", "C", "G">> >>,
                << <<"A", "N", "G", "T">>, <<"A", "G", "G", "T">> >> } }

\* if 'N' in (a, b)
HasN_firstOnly(a, b) == a = "N"

HasN(a, b) == "N" \in {a, b}

\* The nucleotide-transition test of the scoring loop.
IsTransition_oneSuffices(a, b) ==
    \/ Cardinality({a, b} \cap {"A", "G"}) >= 1
    \/ Cardinality({a, b} \cap {"C", "T"}) = 2

IsTransition_onePyrimidine(a, b) ==
    \/ Cardinality({a, b} \cap {"A", "G"}) = 2
    \/ Cardinality({a, b} \cap {"C", "T"}) >= 1

IsTransition_ordered(a, b) ==
    \/ a = "A" /\ b = "G"
    \/ a = "C" /\ b = "T"

IsTransition(a, b) ==
    \/ Cardinality({a, b} \cap {"A", "G"}) = 2
    \/ Cardinality({a, b} \cap {"C", "T"}) = 2

\* if '-' in (a, b)
HasGap_firstOnly(a, b) == a = "-"

HasGap(a, b) == "-" \in {a, b}

\* score += parameters_dict['match_score']; identity += 1
MatchEffect_scoreOnly(c, p) == [c EXCEPT !.score = @ + p.match_score]

MatchEffect(c, p) == [c EXCEPT !.score = @ + p.match_score, !.identity = @ + 1]

\* disregarded_positions += 1
DisregardEffect(c) == [c EXCEPT !.disregarded_positions = @ + 1]

\* score += parameters_dict['transition']
TransitionEffect(c, p) == [c EXCEPT !.score = @ + p.transition]

\* score += parameters_dict['gap_penalty']; gaps += 1
GapEffect_scoreOnly(c, p) == [c EXCEPT !.score = @ + p.gap_penalty]

GapEffect(c, p) == [c EXCEPT !.score = @ + p.gap_penalty, !.gaps = @ + 1]

\* score += parameters_dict['transversion']
TransversionEffect(c, p) == [c EXCEPT !.score = @ + p.transversion]

\* The body of the zip loop with its first elif read as an if: a column
\* with N is disregarded and then classified again.
ScoreColumnOf_fallThrough(c, a, b, p) ==
    LET d == IF HasN(a, b) THEN DisregardEffect(c) ELSE c
    IN  IF a = b
        THEN IF a # "-" THEN MatchEffect(d, p) ELSE DisregardEffect(d)
        ELSE IF IsTransition(a, b) THEN TransitionEffect(d, p)
        ELSE IF HasGap(a, b) THEN GapEffect(d, p)
        ELSE TransversionEffect(d, p)

\* The body of the zip loop: the counters c after the column (a, b).
ScoreColumnOf(c, a, b, p) ==
    IF HasN(a, b) THEN DisregardEffect(c)
    ELSE IF a = b
    THEN IF a # "-" THEN MatchEffect(c, p) ELSE DisregardEffect(c)
    ELSE IF IsTransition(a, b) THEN TransitionEffect(c, p)
    ELSE IF HasGap(a, b) THEN GapEffect(c, p)
    ELSE TransversionEffect(c, p)

\* The counters as a record.
Counters ==
    [identity |-> identity, gaps |-> gaps, score |-> score,
     disregarded_positions |-> disregarded_positions]

NoCounts == [identity |-> 0, gaps |-> 0, score |-> 0, disregarded_positions |-> 0]

\* key[1:]
DisplayId(key) == IF key = <<>> THEN <<>> ELSE Tail(key)

\* The line added to score_summary for the pair.
SummaryLine(key1, key2, c, denominator) ==
    [id_a |-> DisplayId(key1), id_b |-> DisplayId(key2),
     identity |-> c.identity, gaps |-> c.gaps,
     denominator |-> denominator, score |-> c.score]

\* Whether the inner loop's body scores the pair (i, j).
ScoresPair(x, y) == x < y

InitScore ==
    /\ content = <<>>
    /\ line_no = 0
    /\ \/ IsPairStore(fasta_dict)
       \/ IsManyStore(fasta_dict)
       \/ fasta_dict \in ScenarioStores
    /\ first_line = FALSE
    /\ file_startswith_GT = TRUE
    /\ header_read = FALSE
    /\ invalid_characters_found = FALSE
    /\ head = fasta_dict[Len(fasta_dict)].head
    /\ seq = fasta_dict[Len(fasta_dict)].seq
    /\ parameters_dict \in ParameterSets
    /\ ImporterIdle
    /\ ScorerIdle
    /\ stdout = <<>>
    /\ run = 1
    /\ first_result = <<>>
    /\ message = <<>>
    /\ pc = "pair"
    /\ error = "none"

\* The step of the two nested loops after the pair (i, j).
NextIndex_firstRowOnly ==
    /\ IF j + 1 < Len(fasta_dict)
       THEN i' = i /\ j' = j + 1 /\ pc' = "pair"
       ELSE i' = i /\ j' = j /\ pc' = "write"

NextIndex ==
    /\ IF j + 1 < Len(fasta_dict)
       THEN i' = i /\ j' = j + 1 /\ pc' = "pair"
       ELSE IF i + 1 < Len(fasta_dict)
       THEN i' = i + 1 /\ j' = 0 /\ pc' = "pair"
       ELSE i' = i /\ j' = j /\ pc' = "write"

\* A pass of the inner loop with i >= j: nothing is scored.
SkipPair ==
    /\ pc = "pair"
    /\ ~ScoresPair(i, j)
    /\ NextIndex
    /\ UNCHANGED <<pvars, ivars, rvars, message, stdout, seq_a, seq_b, alignment_len, col,
                   cvars, score_summary, output_file, error>>

\* if len(seq_a) != len(seq_b)
LengthsDiffer_never(a, b) == FALSE

LengthsDiffer(a, b) == Len(a) # Len(b)

\* The parts of the message of the ValueError of the length check: one
\* fixed text, with no part taken from key1 or key2.
LengthMismatchMessage(key1, key2) ==
    << <<"sequences are not of the same length. program interrupted">> >>

\* The pass without the assignments of lines 442-446 for the counters: they
\* keep the values of the pair before.
BeginPair_countersKept ==
    /\ pc = "pair"
    /\ ScoresPair(i, j)
    /\ seq_a' = fasta_dict[i + 1].seq
    /\ seq_b' = fasta_dict[j + 1].seq
    /\ IF LengthsDiffer(seq_a', seq_b')
       THEN /\ pc' = "error"
            /\ error' = "length_mismatch"
            /\ message' = LengthMismatchMessage(fasta_dict[i + 1].head,
                                                fasta_dict[j + 1].head)
            /\ UNCHANGED <<alignment_len, col, cvars>>
       ELSE /\ pc' = "column"
            /\ error' = error
            /\ message' = message
            /\ identity' = identity
            /\ gaps' = gaps
            /\ score' = score
            /\ alignment_len' = Len(seq_a')
            /\ disregarded_positions' = disregarded_positions
            /\ col' = 0
    /\ UNCHANGED <<pvars, ivars, rvars, stdout, i, j, score_summary, output_file>>

\* A pass of the inner loop with i < j, up to the zip loop.
BeginPair ==
    /\ pc = "pair"
    /\ ScoresPair(i, j)
    /\ seq_a' = fasta_dict[i + 1].seq
    /\ seq_b' = fasta_dict[j + 1].seq
    /\ IF LengthsDiffer(seq_a', seq_b')
       THEN /\ pc' = "error"
            /\ error' = "length_mismatch"
            /\ message' = LengthMismatchMessage(fasta_dict[i + 1].head,
                                                fasta_dict[j + 1].head)
            /\ UNCHANGED <<alignment_len, col, cvars>>
       ELSE /\ pc' = "column"
            /\ error' = error
            /\ message' = message
            /\ identity' = 0
            /\ gaps' = 0
            /\ score' = 0
            /\ alignment_len' = Len(seq_a')
            /\ disregarded_positions' = 0
            /\ col' = 0
    /\ UNCHANGED <<pvars, ivars, rvars, stdout, i, j, score_summary, output_file>>

\* One pass of the zip loop.
ScoreColumn ==
    /\ pc = "column"
    /\ col < Len(seq_a) /\ col < Len(seq_b)
    /\ LET c == ScoreColumnOf(Counters, seq_a[col + 1], seq_b[col + 1], parameters_dict)
       IN  /\ identity' = c.identity
           /\ gaps' = c.gaps
           /\ score' = c.score
           /\ disregarded_positions' = c.disregarded_positions
    /\ col' = col + 1
    /\ UNCHANGED <<pvars, ivars, rvars, message, stdout, i, j, seq_a, seq_b, alignment_len,
                   score_summary, output_file, pc, error>>

\* After the zip loop: the percentages and the summary line.  A denominator
\* of 0 raises ZeroDivisionError.
FinishPair ==
    /\ pc = "column"
    /\ ~(col < Len(seq_a) /\ col < Len(seq_b))
    /\ LET denominator == alignment_len - disregarded_positions
       IN  IF denominator = 0
           THEN /\ pc' = "error"
                /\ error' = "zero_division"
                /\ UNCHANGED <<i, j, score_summary>>
           ELSE /\ score_summary' =
                      Append(score_summary,
                             SummaryLine(fasta_dict[i + 1].head, fasta_dict[j + 1].head,
                                         Counters, denominator))
                /\ NextIndex
                /\ error' = error
    /\ UNCHANGED <<pvars, ivars, rvars, message, stdout, seq_a, seq_b, alignment_len, col,
                   cvars, output_file>>

\* with open(output_path, 'w') as f: f.write(score_summary)
WriteOutput ==
    /\ pc = "write"
    /\ output_file' = Append(output_file, score_summary)
    /\ pc' = "done"
    /\ UNCHANGED <<pvars, ivars, rvars, message, stdout, i, j, seq_a, seq_b, alignment_len, col,
                   cvars, score_summary, error>>

NextScore == SkipPair \/ BeginPair \/ ScoreColumn \/ FinishPair \/ WriteOutput

SpecScore == InitScore /\ [][NextScore]_vars

\* The scoring loops started on any store of two records or more, the
\* records of different lengths included, with the default parameters.
IsAnyStore(d) ==
    \E n \in 2..MaxRecs :
        \E s \in [1..n -> UNION {[1..len -> {"A", "-"}] : len \in 0..MaxLen}] :
            d = MakeStore([k \in 1..n |-> <<<<">", "a">>, <<">", "b">>, <<">", "c">>,
                                            <<">", "d">>, <<">", "e">>>>[k]], s)

InitScoreAny ==
    /\ content = <<>>
    /\ line_no = 0
    /\ IsAnyStore(fasta_dict)
    /\ first_line = FALSE
    /\ file_startswith_GT = TRUE
    /\ header_read = FALSE
    /\ invalid_characters_found = FALSE
    /\ head = fasta_dict[Len(fasta_dict)].head
    /\ seq = fasta_dict[Len(fasta_dict)].seq
    /\ parameters_dict = DefaultParameters
    /\ ImporterIdle
    /\ ScorerIdle
    /\ stdout = <<>>
    /\ run = 1
    /\ first_result = <<>>
    /\ message = <<>>
    /\ pc = "pair"
    /\ error = "none"

SpecScoreAny == InitScoreAny /\ [][NextScore]_vars

\* ------------------------------------------------------- the whole program

\* The lines and files of the runs of the whole program: files of up to
\* MaxLines lines, and one file of three records.
RunLines == CoreLines \cup { <<"-", " ">> }

ThreeRecords ==
    << <<">", "a">>, <<"A">>, <<">", "b">>, <<"A">>, <<" ", ">", "c">>, <<"-">> >>

\* The parameter files of the runs: empty, valid, with an unknown name, and
\* with a value that is no number, first and after a valid line.
RunParameterFiles ==
    { <<>>,
      <<Key_match_score \o <<"=", "2">>>>,
      <<Key_match_score \o <<"=", "2">>, Key_transition \o <<"=", "-", "3">>>>,
      <<<<"g", "a", "p", "=", "1">>>>,
      <<Key_transition \o <<"=", "x">>>>,
      <<Key_match_score \o <<"=", "2">>, Key_transition \o <<"=", "x">>>> }

InitRun ==
    /\ \/ \E n \in 0..MaxLines : content \in [1..n -> RunLines]
       \/ content = ThreeRecords
    /\ line_no = 0
    /\ fasta_dict = <<>>
    /\ first_line = TRUE
    /\ file_startswith_GT = FALSE
    /\ header_read = FALSE
    /\ invalid_characters_found = FALSE
    /\ head = <<>>
    /\ seq = <<>>
    /\ parameters_dict = DefaultParameters
    /\ parameters_path \in ParameterPaths
    /\ IF parameters_path = "parameters.txt"
       THEN param_content \in RunParameterFiles
       ELSE param_content = <<>>
    /\ param_line_no = 0
    /\ equals_sign_index = <<>>
    /\ param_read = <<>>
    /\ value = <<>>
    /\ ScorerIdle
    /\ stdout = <<>>
    /\ run = 1
    /\ first_result = <<>>
    /\ message = <<>>
    /\ pc = "read"
    /\ error = "none"

\* parameters_dict = parameter_importer(parameters_path), after
\* fasta_importer has returned the store.
CallParameterImporter ==
    /\ pc = "returned"
    /\ pc' = "params_call"
    /\ UNCHANGED <<pvars, svars, rvars, message, stdout, error>>

\* The start of the scoring loops, after parameter_importer has returned.
StartScoring ==
    /\ pc = "params_returned"
    /\ score_summary' = <<>>
    /\ i' = 0
    /\ j' = 0
    /\ pc' = "pair"
    /\ UNCHANGED <<pvars, ivars, rvars, message, stdout, seq_a, seq_b, alignment_len, col,
                   cvars, output_file, error>>

NextRun ==
    \/ NextParse
    \/ CallParameterImporter
    \/ NextParams
    \/ StartScoring
    \/ NextScore

SpecRun == InitRun /\ [][NextRun]_vars

\* The runs of the interpreter: one thread, which takes the next step of the
\* program whenever there is one.
SpecRunFair == SpecRun /\ WF_vars(NextRun)

\* ------------------------------------------------ claims about the scorer

\* The nucleotides proper.
Nucleotides == {"A", "C", "G", "T"}

\* The zip loop of the pair being scored has taken every column.
ColumnsDone == pc = "column" /\ col = Len(seq_a) /\ col = Len(seq_b)

\* The scoring loop has ended, by running out of pairs or by an exception.
ScorerEnded == pc \in {"write", "done", "error"}

\* A pass of the zip loop is being taken.
ColumnStep == pc = "column" /\ col' = col + 1

\* The index pairs (x, y) with x < y of n records, in the nested order.
IsOrderedPair(q) == q[1] < q[2]

IndexPairs(n) ==
    SelectSeq([k \in 1..(n * n) |-> <<(k - 1) \div n, (k - 1) % n>>], IsOrderedPair)

\* C1: for a store of n records the scorer produces summaries for exactly
\* the index pairs (i, j) with i < j, in the nested order, n(n-1)/2 of them,
\* and id_a is the identifier that comes first in insertion order.
C1_AllPairsSummarised ==
    ScorerEnded =>
        LET n == Len(fasta_dict)
            want == IndexPairs(n)
        IN  /\ 2 * Len(score_summary) = n * (n - 1)
            /\ Len(score_summary) = Len(want)
            /\ \A k \in 1..Len(want) :
                  /\ score_summary[k].id_a = DisplayId(fasta_dict[want[k][1] + 1].head)
                  /\ score_summary[k].id_b = DisplayId(fasta_dict[want[k][2] + 1].head)

\* C2: a column is disregarded if and only if one of its symbols is N or
\* both are '-'; such a column adds one to disregarded_positions and leaves
\* score, identity and gaps as they were, whatever the parameters.
C2_Disregarded ==
    [][ColumnStep =>
          LET a == seq_a[col + 1]
              b == seq_b[col + 1]
              disregard == a = "N" \/ b = "N" \/ (a = "-" /\ b = "-")
          IN  /\ disregard =>
                    /\ disregarded_positions' = disregarded_positions + 1
                    /\ score' = score
                    /\ identity' = identity
                    /\ gaps' = gaps
              /\ ~disregard => disregarded_positions' = disregarded_positions]_vars

C2_Witness ==
    /\ pc = "column"
    /\ col = 2
    /\ seq_a = <<"-", "A">>
    /\ seq_b = <<"-", "N">>
    /\ disregarded_positions = 2
    /\ parameters_dict.match_score = 2

\* C3: a column of two equal nucleotides adds one to identity and
\* match_score to score and changes nothing else; two identical sequences
\* of length L without N and '-' end with identity L, no gaps, nothing
\* disregarded and score L x match_score.
C3_Match ==
    /\ [][ColumnStep /\ seq_a[col + 1] = seq_b[col + 1]
                     /\ seq_a[col + 1] \in Nucleotides =>
             /\ identity' = identity + 1
             /\ score' = score + parameters_dict.match_score
             /\ gaps' = gaps
             /\ disregarded_positions' = disregarded_positions]_vars
    /\ [](ColumnsDone /\ seq_a = seq_b
                      /\ (\A k \in 1..Len(seq_a) : seq_a[k] \in Nucleotides) =>
             /\ identity = Len(seq_a)
             /\ gaps = 0
             /\ disregarded_positions = 0
             /\ score = Len(seq_a) * parameters_dict.match_score)

C3_Witness ==
    /\ ColumnsDone
    /\ seq_a = <<"A", "C", "G", "T">>
    /\ seq_b = seq_a
    /\ identity = 4
    /\ score = 8

\* C4: a column of two different symbols is a transition if and only if
\* both are in {A, G} or both are in {C, T}; it adds the transition weight,
\* any other mismatch of two nucleotides adds the transversion weight, and
\* neither changes a counter.  Where the four weights differ from each other
\* and from 0, the weight added tells the class.
C4_Substitution ==
    [][ColumnStep /\ seq_a[col + 1] # seq_b[col + 1] =>
          LET a == seq_a[col + 1]
              b == seq_b[col + 1]
              p == parameters_dict
              transition == \/ a \in {"A", "G"} /\ b \in {"A", "G"}
                            \/ a \in {"C", "T"} /\ b \in {"C", "T"}
              told == Cardinality({0, p.match_score, p.transition,
                                   p.transversion, p.gap_penalty}) = 5
          IN  /\ transition =>
                    /\ score' = score + p.transition
                    /\ UNCHANGED <<identity, gaps, disregarded_positions>>
              /\ ~transition /\ a \in Nucleotides /\ b \in Nucleotides =>
                    /\ score' = score + p.transversion
                    /\ UNCHANGED <<identity, gaps, disregarded_positions>>
              /\ told => (transition <=> score' = score + p.transition)
              /\ p = DefaultParameters /\ {a, b} = {"A", "G"} => score' = score - 1
              /\ p = DefaultParameters /\ {a, b} = {"A", "C"} => score' = score - 2]_vars

C4_Witness ==
    /\ pc = "column"
    /\ col = 2
    /\ seq_a = <<"A", "A">>
    /\ seq_b = <<"G", "C">>
    /\ parameters_dict = DefaultParameters
    /\ score = -3

\* C5: a column with '-' on one side and a nucleotide on the other adds one
\* to gaps and gap_penalty to score, on whichever side the gap is; AG--
\* against A-CG with the default parameters gives identity 1, gaps 3,
\* nothing disregarded, denominator 4 and score -2.
C5_Gap ==
    /\ [][ColumnStep /\ (\/ seq_a[col + 1] = "-" /\ seq_b[col + 1] \in Nucleotides
                         \/ seq_b[col + 1] = "-" /\ seq_a[col + 1] \in Nucleotides) =>
             /\ gaps' = gaps + 1
             /\ score' = score + parameters_dict.gap_penalty
             /\ identity' = identity
             /\ disregarded_positions' = disregarded_positions]_vars
    /\ [](/\ ColumnsDone
          /\ seq_a = <<"A", "G", "-", "-">>
          /\ seq_b = <<"A", "-", "C", "G">>
          /\ parameters_dict = DefaultParameters
          => /\ identity = 1
             /\ gaps = 3
             /\ disregarded_positions = 0
             /\ alignment_len - disregarded_positions = 4
             /\ score = -2)

C5_Witness ==
    /\ ColumnsDone
    /\ seq_a = <<"A", "G", "-", "-">>
    /\ seq_b = <<"A", "-", "C", "G">>
    /\ parameters_dict = DefaultParameters
    /\ gaps = 3

\* C6: after every column of every pair the three counters are not
\* negative and identity + gaps + disregarded_positions is at most the
\* number of columns taken, so at most the alignment length, and identity
\* + gaps is at most the denominator; ANGT against AGGT ends with identity
\* 3, 1 disregarded, denominator 3.
C6_CountersBounded ==
    /\ identity >= 0
    /\ gaps >= 0
    /\ disregarded_positions >= 0
    /\ identity + gaps + disregarded_positions <= col
    /\ col <= alignment_len
    /\ identity + gaps <= alignment_len - disregarded_positions
    /\ (/\ ColumnsDone
        /\ seq_a = <<"A", "N", "G", "T">>
        /\ seq_b = <<"A", "G", "G", "T">>
        => /\ identity = 3
           /\ disregarded_positions = 1
           /\ alignment_len - disregarded_positions = 3)

C6_Witness ==
    /\ ColumnsDone
    /\ seq_a = <<"A", "N", "G", "T">>
    /\ seq_b = <<"A", "G", "G", "T">>
    /\ identity = 3

\* The counters after the columns of sa against sb, from counters c.
RECURSIVE ScoreColumns(_, _, _, _)
ScoreColumns(c, sa, sb, p) ==
    IF sa = <<>> \/ sb = <<>> THEN c
    ELSE ScoreColumns(ScoreColumnOf(c, Head(sa), Head(sb), p), Tail(sa), Tail(sb), p)

\* C7: scoring is symmetric: the counters the loop ends with for (seq_a,
\* seq_b) are those of scoring seq_b against seq_a.
C7_Symmetric ==
    ColumnsDone => Counters = ScoreColumns(NoCounts, seq_b, seq_a, parameters_dict)

C7_Witness ==
    /\ ColumnsDone
    /\ seq_a = <<"-", "A">>
    /\ seq_b = <<"T", "G">>
    /\ gaps = 1
    /\ score = 10

\* --------------------------------------------- claims about the importer

\* fasta_importer has returned or raised.
ParseEnded == pc \in {"returned", "error"}

\* The records of a file as the documented format gives them: a header
\* line opens a record with no bases, every other line is normalized and
\* appended to the open record, the open record is sealed at the next
\* header and at the end of the file, and a later record of the same
\* header replaces the earlier one.  Used only to state the claims.
SealInto(store, open) ==
    IF open = <<>> THEN store ELSE DictSet(store, open[1].head, open[1].seq)

RECURSIVE RecordsFrom(_, _, _)
RecordsFrom(lines, store, open) ==
    IF lines = <<>> THEN SealInto(store, open)
    ELSE LET line == Strip(Head(lines))
         IN  IF StartsWithGT(line)
             THEN RecordsFrom(Tail(lines), SealInto(store, open),
                              <<[head |-> line, seq |-> <<>>]>>)
             ELSE RecordsFrom(Tail(lines), store,
                              IF open = <<>> THEN open
                              ELSE <<[head |-> open[1].head,
                                      seq |-> open[1].seq \o NormalizeLine(line)]>>)

RecordsOfFile(lines) == RecordsFrom(lines, <<>>, <<>>)

SameLengths(d) == \A x, y \in 1..Len(d) : Len(d[x].seq) = Len(d[y].seq)

\* The first line of the file that strip() does not leave empty, if any.
NonEmptyLines(lines) == {k \in 1..Len(lines) : Strip(lines[k]) # <<>>}

FirstNonEmptyIsHeader(lines) ==
    \E k \in NonEmptyLines(lines) :
        /\ \A m \in NonEmptyLines(lines) : k <= m
        /\ StartsWithGT(Strip(lines[k]))

\* The first line of the file, stripped; empty for the empty file.
FirstLine(lines) == IF lines = <<>> THEN <<>> ELSE Strip(lines[1])

\* C8: a returned store has at least 2 records, all of one length, and a
\* file with fewer than two records or with records of different lengths
\* makes fasta_importer raise instead of returning.
C8_StoreValidated ==
    /\ pc = "returned" => Len(fasta_dict) >= 2 /\ SameLengths(fasta_dict)
    /\ ParseEnded /\ (\/ Len(RecordsOfFile(content)) < 2
                      \/ ~SameLengths(RecordsOfFile(content))) => pc = "error"

\* C9 as stated: the malformed-start error is raised if and only if the
\* first non-empty line does not begin with '>', and no record is returned
\* then; blank lines before the first header do not make the file malformed.
C9_FirstNonEmptyLine ==
    ParseEnded =>
        /\ error = "malformed" <=> ~FirstNonEmptyIsHeader(content)
        /\ error = "malformed" => pc = "error"

\* C9 as amended: the malformed-start error is raised if and only if the
\* first line of the file, stripped, does not begin with '>' (an empty file
\* and a blank first line included), it is raised while that line is
\* handled, and nothing has been stored or returned then.
C9_FirstLine ==
    /\ ~(pc = "read" /\ first_line) =>
          (error = "malformed" <=> ~StartsWithGT(FirstLine(content)))
    /\ error = "malformed" =>
          /\ pc = "error"
          /\ fasta_dict = <<>>
          /\ line_no <= 1
          /\ ~ENABLED NextParse

C9_Witness ==
    /\ Len(content) >= 3
    /\ content[1] = <<" ">>
    /\ content[2] = <<">", "a">>
    /\ FirstNonEmptyIsHeader(content)
    /\ error = "malformed"
    /\ pc = "error"

\* What a file violates, by its records.
ViolatesStart(lines) == ~FirstNonEmptyIsHeader(lines)

ViolatesCount(lines) == Len(RecordsOfFile(lines)) < 2

ViolatesLength(lines) == ~SameLengths(RecordsOfFile(lines))

\* C10: the validations are applied in the order malformed-start,
\* insufficient-sequence-count, unequal-sequence-length: a file that
\* violates the first and another one raises the first, the count error is
\* raised only for a file that starts with a header and the length error
\* only for a store of two records or more, a store that violates a check
\* is not returned, and nothing runs after an error.
C10_ValidationOrder ==
    /\ ParseEnded /\ ViolatesStart(content)
                  /\ (ViolatesCount(content) \/ ViolatesLength(content))
          => error = "malformed"
    /\ error = "insufficient" => file_startswith_GT /\ Len(fasta_dict) < 2
    /\ error = "unequal" =>
          /\ file_startswith_GT
          /\ Len(fasta_dict) >= 2
          /\ ~SameLengths(fasta_dict)
    /\ pc = "returned" =>
          /\ error = "none"
          /\ file_startswith_GT
          /\ Len(fasta_dict) >= 2
          /\ SameLengths(fasta_dict)
    /\ error # "none" => pc = "error" /\ ~ENABLED NextParse

C10_Witness ==
    /\ ParseEnded
    /\ ViolatesStart(content)
    /\ ViolatesLength(content)
    /\ Len(content) = 4
    /\ error = "malformed"

\* The normalization of one character as documented: its uppercase form
\* when that is one symbol of the alphabet, and one N otherwise.  Used
\* only to state the claims.
NormalizedChar(c) ==
    IF Len(Upper(c)) = 1 /\ Upper(c)[1] \in valid_chars
    THEN Upper(c)[1]
    ELSE "N"

NormalizedAsDocumented(line) ==
    [k \in 1..Len(line) |-> NormalizedChar(line[k])]

SymbolsOf(d) == UNION {{d[x].seq[y] : y \in 1..Len(d[x].seq)} : x \in 1..Len(d)}

\* C11: every symbol of every bases value of a returned store is in
\* {A, C, G, T, -, N}, and every sequence line read after a header
\* comes out of the normalization with its length unchanged, its in-alphabet
\* characters uppercased in place and one N in the place of every other
\* character.
C11_Alphabet ==
    /\ pc = "returned" => SymbolsOf(fasta_dict) \subseteq valid_chars
    /\ pc = "read" /\ file_startswith_GT /\ CurrentLine # <<>>
                   /\ ~StartsWithGT(CurrentLine)
          => NormalizeLine(CurrentLine) = NormalizedAsDocumented(CurrentLine)

\* The header lines of a file, and for a header line the lines up to the
\* next header line or the end of the file.  Used only to state the claims.
HeaderLines(lines) == {k \in 1..Len(lines) : StartsWithGT(Strip(lines[k]))}

NextHeader(lines, h) ==
    IF \E k \in HeaderLines(lines) : k > h
    THEN CHOOSE k \in HeaderLines(lines) :
             k > h /\ \A m \in HeaderLines(lines) : m > h => k <= m
    ELSE Len(lines) + 1

RECURSIVE ConcatNormalized(_, _, _)
ConcatNormalized(lines, from, to) ==
    IF from > to THEN <<>>
    ELSE NormalizeLine(Strip(lines[from])) \o ConcatNormalized(lines, from + 1, to)

BodyOf(lines, h) == ConcatNormalized(lines, h + 1, NextHeader(lines, h) - 1)

\* C12: every record of a returned store has a header line in the file
\* such that the record's bases are the concatenation, in file order, of
\* the normalized lines between that header line and the next header line
\* or the end of the file; the record of a header directly followed by
\* another header has empty bases.
C12_BodyBetweenHeaders ==
    pc = "returned" =>
        \A x \in 1..Len(fasta_dict) :
            \E h \in HeaderLines(content) :
                /\ Strip(content[h]) = fasta_dict[x].head
                /\ fasta_dict[x].seq = BodyOf(content, h)

\* The header lines of a file that carry one header, and the first and the
\* last of them.  Used only to state the claims.
LinesOfHeader(lines, h) == {k \in HeaderLines(lines) : Strip(lines[k]) = h}

FirstOf(S) == CHOOSE k \in S : \A m \in S : k <= m

LastOf(S) == CHOOSE k \in S : \A m \in S : m <= k

IsRepeated(lines, h) == Cardinality(LinesOfHeader(lines, h)) > 1

\* C13: a returned store holds one record for each header; the record of a
\* header that stands on more than one line of the file has the bases that
\* follow the last of these lines, and stands in the store where the first
\* of these lines puts it, before the record of every header that first
\* appears later; a repeated header raises no error of its own.
C13_LastWriteWins ==
    pc = "returned" =>
        /\ \A x, y \in 1..Len(fasta_dict) :
              fasta_dict[x].head = fasta_dict[y].head => x = y
        /\ \A x \in 1..Len(fasta_dict) :
              IsRepeated(content, fasta_dict[x].head) =>
                 /\ fasta_dict[x].seq =
                       BodyOf(content, LastOf(LinesOfHeader(content, fasta_dict[x].head)))
                 /\ \A y \in 1..Len(fasta_dict) :
                       /\ LinesOfHeader(content, fasta_dict[y].head) # {}
                       /\ (x < y <=>
                             FirstOf(LinesOfHeader(content, fasta_dict[x].head))
                               < FirstOf(LinesOfHeader(content, fasta_dict[y].head)))

\* The identifier of a header line as documented: its first
\* whitespace-delimited token without the leading '>'.  Used only to state
\* the claims.
FirstToken(line) ==
    LET ws == {k \in 1..Len(line) : line[k] \in Whitespace}
    IN  IF ws = {} THEN line ELSE SubSeq(line, 1, FirstOf(ws) - 1)

IdentifierOf(line) ==
    IF FirstToken(line) = <<>> THEN <<>> ELSE Tail(FirstToken(line))

\* C14: the records of a returned store have different identifiers, so two
\* header lines with one first token and different text after it give one
\* record, and what the output shows for a record is its identifier, with
\* no description text.
C14_FirstToken ==
    pc = "returned" =>
        /\ \A x, y \in 1..Len(fasta_dict) :
              IdentifierOf(fasta_dict[x].head) = IdentifierOf(fasta_dict[y].head)
                 => x = y
        /\ \A x \in 1..Len(fasta_dict) :
              /\ DisplayId(fasta_dict[x].head) = IdentifierOf(fasta_dict[x].head)
              /\ \A k \in 1..Len(DisplayId(fasta_dict[x].head)) :
                    DisplayId(fasta_dict[x].head)[k] \notin Whitespace

\* C15: a second parse of the same content in the same process starts from
\* the state the first one started from, whatever the first one left
\* behind, and it ends as the first one did: the same store (the same
\* headers in the same order with the same bases) or the same error.
C15_SameResult ==
    /\ run = 2 /\ pc = "read" /\ first_line =>
          /\ line_no = 0
          /\ fasta_dict = <<>>
          /\ ~file_startswith_GT
          /\ ~header_read
          /\ ~invalid_characters_found
          /\ head = <<>>
          /\ seq = <<>>
    /\ run = 2 /\ ParseEnded => ResultOfCall = first_result[1]

C15_Witness ==
    /\ run = 2
    /\ pc = "returned"
    /\ Len(fasta_dict) = 2
    /\ fasta_dict[2].seq # <<>>
    /\ first_result[1].returned

\* The number of invalid-characters notices printed so far, and whether a
\* character of a line read so far was replaced by the normalization.
Notices == Cardinality({k \in 1..Len(stdout) : stdout[k] = "invalid_characters"})

SomeReplaced ==
    \E k \in 1..line_no :
        /\ ~StartsWithGT(Strip(content[k]))
        /\ NormalizeLine(Strip(content[k])) # UpperLine(Strip(content[k]))

ParameterNames == {"match_score", "transition", "transversion", "gap_penalty"}

HasEquals(line) == CountOf(line, "=") > 0

NameOfLine(line) == Strip(SliceBefore(line, IndexOf(line, "=")))

ValueOfLine(line) == FloatOf(Strip(SliceAfter(line, IndexOf(line, "="))))

LinesNaming(lines, key) ==
    {k \in 1..Len(lines) : HasEquals(lines[k]) /\ KeyOf(NameOfLine(lines[k])) = key}

\* C17: without a parameter file parameter_importer returns the defaults;
\* with one, a returned dictionary has exactly the four names, a parameter
\* that no line names has its default, and a parameter that a line names
\* has the value of the last line that names it.
C17_DefaultsAndOverrides ==
    pc = "params_returned" =>
        /\ parameters_path = NoPath => parameters_dict = DefaultParameters
        /\ DOMAIN parameters_dict = ParameterNames
        /\ \A key \in ParameterNames :
              IF LinesNaming(param_content, key) = {}
              THEN parameters_dict[key] = DefaultParameters[key]
              ELSE <<parameters_dict[key]>> =
                      ValueOfLine(param_content[LastOf(LinesNaming(param_content, key))])

\* Whether a line has an equals sign and a name left of it that is none of
\* the four.
NamesUnknown(line) == HasEquals(line) /\ KeyOf(NameOfLine(line)) \notin ParameterNames

ImporterEnded == pc \in {"params_returned", "error"}

\* C18: parameter_importer never reads past a line that names an unknown
\* parameter: reading such a line raises the unknown-parameter error, so a
\* file that holds one is never answered with a dictionary, and the
\* dictionary has the four names and no other at every step.
C18_UnknownNameFatal ==
    /\ DOMAIN parameters_dict = ParameterNames
    /\ pc = "params" =>
          \A k \in 1..param_line_no : ~NamesUnknown(param_content[k])
    /\ pc = "params_returned" =>
          \A k \in 1..Len(param_content) : ~NamesUnknown(param_content[k])
    /\ pc = "error" /\ param_line_no > 0 /\ NamesUnknown(param_content[param_line_no])
          => error = "unknown_parameter"

C18_Witness ==
    /\ pc = "error"
    /\ error = "unknown_parameter"
    /\ param_line_no = 2
    /\ NamesUnknown(param_content[2])
    /\ parameters_dict # DefaultParameters

\* Whether a line has an equals sign and a text right of it that is no
\* number.
ValueNotNumeric(line) == HasEquals(line) /\ ValueOfLine(line) = <<>>

\* C19: a file with a line whose value is no number is never answered with
\* a dictionary, wherever the line stands: reading the line ends
\* parameter_importer with an error.
C19_NonNumericFatal ==
    /\ pc = "params" =>
          \A k \in 1..param_line_no : ~ValueNotNumeric(param_content[k])
    /\ pc = "params_returned" =>
          \A k \in 1..Len(param_content) : ~ValueNotNumeric(param_content[k])

\* ------------------------------------------ claims about the whole program

\* C20: the output file is written at most once and only as the last step
\* of a run; a run that has met a fatal condition (in fasta_importer, in
\* parameter_importer or in the scoring loops) has written nothing and
\* writes nothing; the text written is the whole summary, one line for
\* every pair of records of the store.
C20_NoPartialOutput ==
    /\ pc # "done" => output_file = <<>>
    /\ error # "none" => pc = "error" /\ output_file = <<>> /\ ~ENABLED NextRun
    /\ pc = "done" =>
          /\ error = "none"
          /\ output_file = <<score_summary>>
          /\ Len(score_summary) = Len(IndexPairs(Len(fasta_dict)))
          /\ \A k \in 1..Len(score_summary) :
                LET pair == IndexPairs(Len(fasta_dict))[k]
                IN  /\ score_summary[k].id_a = DisplayId(fasta_dict[pair[1] + 1].head)
                    /\ score_summary[k].id_b = DisplayId(fasta_dict[pair[2] + 1].head)
          /\ ~ENABLED NextRun

C20_Witness ==
    /\ pc = "done"
    /\ Len(fasta_dict) = 3
    /\ Len(output_file) = 1
    /\ Len(output_file[1]) = 3
    /\ parameters_path = "parameters.txt"
    /\ parameters_dict # DefaultParameters

\* --------------------------------- claims about the scorer: the length check

\* Whether the inner loop is at a pair i < j whose sequences differ in
\* length, and whether a message has a part that is the displayed
\* identifier of a record.
AtUnequalPair ==
    /\ pc = "pair"
    /\ ScoresPair(i, j)
    /\ Len(fasta_dict[i + 1].seq) # Len(fasta_dict[j + 1].seq)

NamesRecord(msg, x) ==
    \E k \in 1..Len(msg) : msg[k] = DisplayId(fasta_dict[x].head)

Scoring == pc \in {"pair", "column", "write", "done"}

\* C22: in a run of the program the scorer's length-mismatch error is
\* never raised: the store that fasta_importer has returned has records of
\* one length, so the scorer is never at a pair of sequences that differ
\* in length, and the two sequences it has bound have one length.
C22_MismatchUnreachable ==
    /\ error # "length_mismatch"
    /\ message = <<>>
    /\ pc \in {"returned", "params_call", "params", "params_returned"} \/ Scoring
          => SameLengths(fasta_dict)
    /\ ~AtUnequalPair
    /\ Len(seq_a) = Len(seq_b)

C22_Witness ==
    /\ pc = "column"
    /\ Len(fasta_dict) = 3
    /\ i = 1
    /\ j = 2
    /\ Len(seq_a) = 1
    /\ Len(seq_b) = 1

\* C23: in a run of the program the denominator of the percentages is
\* greater than 0 for every pair of the returned store when the column
\* loop of the pair has ended, and no ZeroDivisionError is raised.
C23_DenominatorPositive ==
    /\ error # "zero_division"
    /\ pc = "column" /\ ~(col < Len(seq_a) /\ col < Len(seq_b))
          => alignment_len - disregarded_positions > 0

\* ------------------------------ claims about the importer: the end of reading

\* C24: the read loop ends only at the end of the input: a parse that has
\* left the loop without the malformed-start error has read every line, a
\* returned store has a record for every header line of the file, and the
\* record of a header that is followed by sequence lines, blank lines
\* among them, holds all of these lines up to the next header.
C24_ReadsToEnd ==
    /\ pc \in {"validate", "returned"} \/ error \in {"insufficient", "unequal"}
          => line_no = Len(content)
    /\ pc = "returned" =>
          /\ \A h \in HeaderLines(content) :
                \E x \in 1..Len(fasta_dict) : fasta_dict[x].head = Strip(content[h])
          /\ \A x \in 1..Len(fasta_dict) :
                LET h == LastOf(LinesOfHeader(content, fasta_dict[x].head))
                IN  BodyOf(content, h) # <<>> => fasta_dict[x].seq = BodyOf(content, h)

\* ------------------------------- claims about the classes of the columns

\* The transition row of the scoring table: both symbols in {A, G} or both
\* in {C, T}.
SubstitutionIsTransition(a, b) ==
    \/ {a, b} \subseteq {"A", "G"}
    \/ {a, b} \subseteq {"C", "T"}

\* The class of the column (a, b) by the rows of the scoring table, taken in
\* their priority order.
ClassByTable(a, b) ==
    IF a = "N" \/ b = "N" THEN "disregarded"
    ELSE IF a = b /\ a # "-" THEN "match"
    ELSE IF a = b /\ a = "-" THEN "disregarded"
    ELSE IF a # b /\ SubstitutionIsTransition(a, b) THEN "transition"
    ELSE IF a # b /\ (a = "-" \/ b = "-") THEN "gap"
    ELSE "transversion"

\* The class of the column (a, b) when the gap row is tried before the
\* transition row.
ClassGapFirst(a, b) ==
    IF a = "N" \/ b = "N" THEN "disregarded"
    ELSE IF a = b /\ a # "-" THEN "match"
    ELSE IF a = b /\ a = "-" THEN "disregarded"
    ELSE IF a # b /\ (a = "-" \/ b = "-") THEN "gap"
    ELSE IF a # b /\ SubstitutionIsTransition(a, b) THEN "transition"
    ELSE "transversion"

\* The effect of a column of the class cls on the counters c.
EffectOfClass(cls, c, p) ==
    CASE cls = "disregarded"  -> [c EXCEPT !.disregarded_positions = @ + 1]
      [] cls = "match"        -> [c EXCEPT !.identity = @ + 1, !.score = @ + p.match_score]
      [] cls = "transition"   -> [c EXCEPT !.score = @ + p.transition]
      [] cls = "gap"          -> [c EXCEPT !.gaps = @ + 1, !.score = @ + p.gap_penalty]
      [] cls = "transversion" -> [c EXCEPT !.score = @ + p.transversion]

\* The counters after the step.
CountersAfter ==
    [identity |-> identity', gaps |-> gaps', score |-> score',
     disregarded_positions |-> disregarded_positions']

\* C25: for every column (a, b) over {A, C, G, T, -, N} the scoring loop
\* takes, the counters change as the class of the scoring table's priority
\* order prescribes, and as the class found with the gap row tried before
\* the transition row prescribes; the two classes are the same.
C25_OrdersAgree ==
    [][ColumnStep =>
          LET a == seq_a[col + 1]
              b == seq_b[col + 1]
          IN  /\ ClassByTable(a, b) = ClassGapFirst(a, b)
              /\ CountersAfter = EffectOfClass(ClassByTable(a, b), Counters, parameters_dict)
              /\ CountersAfter = EffectOfClass(ClassGapFirst(a, b), Counters, parameters_dict)
       ]_vars

\* A column of a gap facing a purine has been counted as an unmatched gap.
C25_Witness ==
    /\ pc = "column"
    /\ col > 0
    /\ seq_a[col] = "-"
    /\ seq_b[col] \in {"A", "G"}
    /\ gaps > 0
    /\ parameters_dict.gap_penalty # parameters_dict.transition

\* The number of the first n columns of sa against sb that are of the
\* class cls.
ColumnsOfClass(cls, sa, sb, n) ==
    Cardinality({k \in 1..n : ClassByTable(sa[k], sb[k]) = cls})

\* C26: while a pair is scored, each column taken is in one class: the
\* counters are the numbers of match, unmatched-gap and disregarded columns,
\* they add up with the numbers T and V of transition and transversion
\* columns to the number of columns taken (the length L of the pair when
\* the loop ends), and the score is match_score x identity + gap_penalty x
\* gaps + transition x T + transversion x V.
C26_ClassesPartition ==
    pc = "column" =>
        LET T == ColumnsOfClass("transition", seq_a, seq_b, col)
            V == ColumnsOfClass("transversion", seq_a, seq_b, col)
        IN  /\ identity = ColumnsOfClass("match", seq_a, seq_b, col)
            /\ gaps = ColumnsOfClass("gap", seq_a, seq_b, col)
            /\ disregarded_positions = ColumnsOfClass("disregarded", seq_a, seq_b, col)
            /\ identity + gaps + disregarded_positions + T + V = col
            /\ ColumnsDone => col = alignment_len
            /\ score = parameters_dict.match_score * identity
                         + parameters_dict.gap_penalty * gaps
                         + parameters_dict.transition * T
                         + parameters_dict.transversion * V

\* A pair of a transition column and a transversion column has been scored
\* to its end with four different parameters.
C26_Witness ==
    /\ ColumnsDone
    /\ seq_a = <<"A", "A">>
    /\ seq_b = <<"G", "C">>
    /\ parameters_dict = [match_score |-> 2, transition |-> 3,
                          transversion |-> 5, gap_penalty |-> 7]
    /\ identity = 0 /\ gaps = 0 /\ disregarded_positions = 0
    /\ score = 8

\* ------------------------------ claims about the independence of the pairs

\* The summary of the pair of the records x and y of the store d under the
\* parameters p, computed from the two records and p alone.
SummaryOfPair(d, x, y, p) ==
    LET c == ScoreColumns(NoCounts, d[x + 1].seq, d[y + 1].seq, p)
    IN  SummaryLine(d[x + 1].head, d[y + 1].head, c,
                    Len(d[x + 1].seq) - c.disregarded_positions)

SequenceStep == pc = "read" /\ CurrentLine # <<>> /\ ~StartsWithGT(CurrentLine)

\* C28: a record that is in the store stays where it is under its header;
\* its bases change in a step only when the header that is open in that
\* step is its own and stands on more than one of the header lines read so
\* far, that is, when a later header line carries the same identifier; a
\* pass over a sequence line leaves the store as it is.
C28_SealedRecordsKept ==
    [][/\ Len(fasta_dict') >= Len(fasta_dict)
       /\ \A x \in 1..Len(fasta_dict) :
             /\ fasta_dict'[x].head = fasta_dict[x].head
             /\ fasta_dict'[x].seq # fasta_dict[x].seq =>
                   /\ head = fasta_dict[x].head
                   /\ IsRepeated(SubSeq(content, 1, line_no), head)
       /\ SequenceStep => fasta_dict' = fasta_dict
      ]_vars

\* A record has been sealed, sequence lines of a later record have been
\* read, and the sealed record has its own bases.
C28_Witness ==
    /\ pc = "returned"
    /\ content = << <<">", "a">>, <<"g", "x">>, <<">", "b">>, <<"A", "C">> >>
    /\ fasta_dict = << [head |-> <<">", "a">>, seq |-> <<"G", "N">>],
                       [head |-> <<">", "b">>, seq |-> <<"A", "C">>] >>

\* --------------------------- claims about parameter_importer: equals signs

\* Whether a line is not empty and has no equals sign, or more than one.
NotOneEquals(line) == Strip(line) # <<>> /\ CountOf(line, "=") # 1

\* C29: parameter_importer never reads past a non-empty line that has no
\* equals sign or more than one: reading such a line ends it with an error,
\* whatever lines came before, so a file that holds one is never answered
\* with a dictionary and the line changes no value of a returned dictionary.
C29_OneEqualsOrFatal ==
    /\ pc = "params" =>
          \A k \in 1..param_line_no : ~NotOneEquals(param_content[k])
    /\ pc = "params_returned" =>
          /\ \A k \in 1..Len(param_content) : ~NotOneEquals(param_content[k])
          /\ \A key \in ParameterNames :
                LinesNaming(param_content, key) = {} =>
                    parameters_dict[key] = DefaultParameters[key]

\* ------------------------------------------------ claims about termination

\* The two ways a run ends.
OutputWritten == pc = "done" /\ error = "none" /\ Len(output_file) = 1

FatalError == pc = "error" /\ error # "none" /\ output_file = <<>>

\* C30: every run comes to its end and stays there: the read loop of the
\* FASTA file, the read loop of the parameter file and the pair and column
\* loops are each left after finitely many passes, and the run ends either
\* with the output written or with a fatal error, never both.
C30_Terminates == <>[](OutputWritten \/ FatalError)

\* A run has ended with the output written after passes of all four loops.
C30_Witness ==
    /\ OutputWritten
    /\ Len(content) = MaxLines /\ line_no = Len(content)
    /\ Len(param_content) = 2 /\ param_line_no = 2
    /\ alignment_len = 1 /\ col = 1
    /\ Len(score_summary) = 1

====
